---- MODULE Spec2Model ----
(***************************************************************************)
(* The rank-and-pivot kernel of heatmap_demo: BaciDataset (oak_df,         *)
(* country_ranks, ranked_oak_df) and the Top-N front-ends that build the   *)
(* full importer x exporter matrix once and slice it per slider value.     *)
(*                                                                         *)
(* pandas objects are modelled by what the calls compute:                  *)
(*   a Series    is a sequence of [key, val] in index order,               *)
(*   a DataFrame of rows is a sequence of records in row order,            *)
(*   a pivot     is [index, columns, values] with values a list of rows.   *)
(* A functools.cached_property is an option value: None until first read,  *)
(* Some(v) afterwards.                                                     *)
(***************************************************************************)
EXTENDS Integers, Sequences, FiniteSets, TLC

\* csv, codes: the trade file and the country lookup inside the ZIP.
\* oak_df, country_ranks, ranked_oak_df: the cached properties of baci.
\* countries_ordered, full_matrix: the cached properties of a front-end.
\* out: what the last _slice_for_n returned; prev: what the one before did.
\* sess: the Top-N request each session of a server front-end is working on.
\* bokeh: the document of the static Bokeh page (layout and browser state).
\* resp: the last response of GET /data.
\* rebuilt: what the last _matrix_for_n of voila_heatmap returned.
\* arg, ret: the argument and the return value of the last call of a helper
\* function or of a method of a front-end without cached matrix.
VARIABLES csv, codes, oak_df, country_ranks, ranked_oak_df,
          countries_ordered, full_matrix, out, prev,
          sess, bokeh, resp, rebuilt, arg, ret

vars == <<csv, codes, oak_df, country_ranks, ranked_oak_df,
          countries_ordered, full_matrix, out, prev,
          sess, bokeh, resp, rebuilt, arg, ret>>

\* The state outside BaciDataset and the sliced front-end.
others == <<sess, bokeh, resp, rebuilt, arg, ret>>

-----------------------------------------------------------------------------
(* Bounds of the model.                                                    *)

\* Longest trade file drawn as input (rows of the CSV).
MaxRecords == 2

\* Sessions (browser tabs, callback threads) served by one front-end object.
MaxSessions == 2

\* Largest power of ten the numbers given to split_thousands are scaled by.
MaxShift == 2

-----------------------------------------------------------------------------
(* Values.                                                                 *)

\* The product code oak_df keeps.
OakProduct == 440791

\* The slider value a page opens with, when there are that many countries.
DefaultN == 10

\* A float NaN in a numeric column (a rank that could not be mapped).
NA == -1

\* A float NaN in a name column (a code the lookup does not hold).
NaN == "NaN"

\* Country names in the order Python compares strings.
Alphabet == <<"A", "B", "C">>

\* The quantities of the drawn rows: none, and one unit.
Quantities == {0, 1}

\* Country codes of the trade file.
Codes == {1, 2, 3}

\* country_codes_V202501.csv with every code present.
FullLookup == (1 :> "C") @@ (2 :> "A") @@ (3 :> "B")

None == <<>>

Some(v) == <<v>>

Val(c) == c[1]

\* A function over 1..n as a list of its n values.
List(f) == f \o <<>>

Range(s) == {s[i] : i \in 1..Len(s)}

Min(a, b) == IF a < b THEN a ELSE b

Max(a, b) == IF a > b THEN a ELSE b

\* list.index / Index.get_loc for a label that is present once.
IndexOf(seq, x) == CHOOSE i \in 1..Len(seq) : seq[i] = x

\* sorted(S) for a set of names.
SortedKeys(S) == SelectSeq(Alphabet, LAMBDA x : x \in S)

-----------------------------------------------------------------------------
(* BaciDataset.                                                            *)

\* Series.map(index): the name of a code, NaN for a code without an entry.
MapName(index, code) == IF code \in DOMAIN index THEN index[code] ELSE NaN

\* oak_df: the rows of product 440791, each with its two names.
OakDf(df, index) ==
    LET kept == SelectSeq(df, LAMBDA r : r.product = OakProduct)
    IN  List([i \in 1..Len(kept) |->
            [exporter      |-> kept[i].exporter,
             importer      |-> kept[i].importer,
             quantity      |-> kept[i].quantity,
             exporter_name |-> MapName(index, kept[i].exporter),
             importer_name |-> MapName(index, kept[i].importer)]])

RECURSIVE SumQuantity(_)
\* Series.sum over the quantity column of some rows.
SumQuantity(rows) ==
    IF rows = <<>> THEN 0
    ELSE Head(rows).quantity + SumQuantity(Tail(rows))

\* df.groupby(col)["quantity"].sum(): keys sorted, NaN keys left out.
GroupBySum(rows, col) ==
    LET keys == SortedKeys({rows[i][col] : i \in 1..Len(rows)} \ {NaN})
    IN  List([k \in 1..Len(keys) |->
            [key |-> keys[k],
             val |-> SumQuantity(SelectSeq(rows, LAMBDA r : r[col] = keys[k]))]])

Keys(s) == {s[i].key : i \in 1..Len(s)}

\* Series[label] for a label of the index.
At(s, k) == s[CHOOSE i \in 1..Len(s) : s[i].key = k].val

\* (exports + imports).dropna(): only the countries present on both sides.
SeriesAddInner(a, b) ==
    LET idx == SortedKeys(Keys(a) \cap Keys(b))
    IN  List([i \in 1..Len(idx) |->
            [key |-> idx[i], val |-> At(a, idx[i]) + At(b, idx[i])]])

\* exports.add(imports, fill_value=0): the sorted union of both indexes, a
\* side that lacks the label counting as 0.
SeriesAdd(a, b) ==
    LET idx == SortedKeys(Keys(a) \cup Keys(b))
    IN  List([i \in 1..Len(idx) |->
            [key |-> idx[i],
             val |-> (IF idx[i] \in Keys(a) THEN At(a, idx[i]) ELSE 0)
                   + (IF idx[i] \in Keys(b) THEN At(b, idx[i]) ELSE 0)]])

\* total: the quantity exported plus the quantity imported per country.
Total(rows) ==
    SeriesAdd(GroupBySum(rows, "exporter_name"),
              GroupBySum(rows, "importer_name"))

\* rank(ascending=False, method="min"): tied values share the smallest rank.
RankMin(s) ==
    List([i \in 1..Len(s) |->
        [key |-> s[i].key,
         val |-> 1 + Cardinality({j \in 1..Len(s) : s[j].val > s[i].val})]])

\* rank(method="first") with the default ascending=True.
RankAscending(s) ==
    List([i \in 1..Len(s) |->
        [key |-> s[i].key,
         val |-> 1 + Cardinality({j \in 1..Len(s) : s[j].val < s[i].val})
                   + Cardinality({j \in 1..(i - 1) : s[j].val = s[i].val})]])

\* A descending rank that breaks ties in the reverse order of the Series.
RankLast(s) ==
    List([i \in 1..Len(s) |->
        [key |-> s[i].key,
         val |-> 1 + Cardinality({j \in 1..Len(s) : s[j].val > s[i].val})
                   + Cardinality({j \in (i + 1)..Len(s) : s[j].val = s[i].val})]])

\* total.rank(ascending=False, method="first").astype("int64"): one more than
\* the number of larger values, ties ranked in the order of the Series.
Rank(s) ==
    List([i \in 1..Len(s) |->
        [key |-> s[i].key,
         val |-> 1 + Cardinality({j \in 1..Len(s) : s[j].val > s[i].val})
                   + Cardinality({j \in 1..(i - 1) : s[j].val = s[i].val})]])

\* The ranks left in the order of the totals (no sort).
SortValuesSkipped(s) == s

\* ranks.sort_values(ascending=True, inplace=True).
SortValues(s) ==
    LET pos(i) == 1 + Cardinality({j \in 1..Len(s) : s[j].val < s[i].val})
                    + Cardinality({j \in 1..(i - 1) : s[j].val = s[i].val})
    IN  List([p \in 1..Len(s) |-> s[CHOOSE i \in 1..Len(s) : pos(i) = p]])

\* country_ranks.
CountryRanks(rows) == SortValues(Rank(Total(rows)))

\* Series.map(country_ranks): the rank of a name, NaN for a name not ranked.
MapRank(ranks, name) == IF name \in Keys(ranks) THEN At(ranks, name) ELSE NA

\* The order of sort_values(by=[exporter_rank, importer_rank]): NaN last.
RankKeyLess(a, b) == (a # NA /\ b = NA) \/ (a # NA /\ b # NA /\ a < b)

RowLess(r, s) ==
    \/ RankKeyLess(r.exporter_rank, s.exporter_rank)
    \/ /\ r.exporter_rank = s.exporter_rank
       /\ RankKeyLess(r.importer_rank, s.importer_rank)

\* ranked_oak_df: the rows with both ranks, sorted by them (stable).
RankedOakDf(rows, ranks) ==
    LET with == List([i \in 1..Len(rows) |->
                    [exporter      |-> rows[i].exporter,
                     importer      |-> rows[i].importer,
                     quantity      |-> rows[i].quantity,
                     exporter_name |-> rows[i].exporter_name,
                     importer_name |-> rows[i].importer_name,
                     exporter_rank |-> MapRank(ranks, rows[i].exporter_name),
                     importer_rank |-> MapRank(ranks, rows[i].importer_name)]])
        pos(i) == 1 + Cardinality({j \in 1..Len(with) : RowLess(with[j], with[i])})
                    + Cardinality({j \in 1..(i - 1) :
                                      /\ ~RowLess(with[j], with[i])
                                      /\ ~RowLess(with[i], with[j])})
    IN  List([p \in 1..Len(with) |-> with[CHOOSE i \in 1..Len(with) : pos(i) = p]])

-----------------------------------------------------------------------------
(* The Top-N front-ends (Dash, Streamlit, Voila, Shiny, NiceGUI).          *)

\* country_ranks.index.tolist().
IndexToList(ranks) == List([i \in 1..Len(ranks) |-> ranks[i].key])

\* The rows of one importer/exporter pair.
PairRows(rows, imp, exp) ==
    SelectSeq(rows, LAMBDA r : r.importer_name = imp /\ r.exporter_name = exp)

\* pivot_table with the two axes exchanged.
PivotTableTransposed(rows, fill) ==
    LET ok      == SelectSeq(rows, LAMBDA r : r.importer_name # NaN
                                            /\ r.exporter_name # NaN)
        index   == SortedKeys({ok[i].exporter_name : i \in 1..Len(ok)})
        columns == SortedKeys({ok[i].importer_name : i \in 1..Len(ok)})
    IN  [index   |-> index,
         columns |-> columns,
         values  |-> List([i \in 1..Len(index) |-> List([j \in 1..Len(columns) |->
                        IF PairRows(ok, columns[j], index[i]) = <<>> THEN fill
                        ELSE SumQuantity(PairRows(ok, columns[j], index[i]))])])]

\* pivot_table with aggfunc="max" in place of "sum".
PivotTableMax(rows, fill) ==
    LET ok      == SelectSeq(rows, LAMBDA r : r.importer_name # NaN
                                            /\ r.exporter_name # NaN)
        index   == SortedKeys({ok[i].importer_name : i \in 1..Len(ok)})
        columns == SortedKeys({ok[i].exporter_name : i \in 1..Len(ok)})
        most(p) == CHOOSE q \in {p[i].quantity : i \in 1..Len(p)} :
                       \A i \in 1..Len(p) : p[i].quantity <= q
    IN  [index   |-> index,
         columns |-> columns,
         values  |-> List([i \in 1..Len(index) |-> List([j \in 1..Len(columns) |->
                        IF PairRows(ok, index[i], columns[j]) = <<>> THEN fill
                        ELSE most(PairRows(ok, index[i], columns[j]))])])]

\* sub.pivot_table(index="importer_name", columns="exporter_name",
\* values="quantity", aggfunc="sum", fill_value=fill): rows with a NaN key are
\* left out, both axes hold the sorted names that occur, a pair without rows
\* holds fill.
PivotTable(rows, fill) ==
    LET ok      == SelectSeq(rows, LAMBDA r : r.importer_name # NaN
                                            /\ r.exporter_name # NaN)
        index   == SortedKeys({ok[i].importer_name : i \in 1..Len(ok)})
        columns == SortedKeys({ok[i].exporter_name : i \in 1..Len(ok)})
    IN  [index   |-> index,
         columns |-> columns,
         values  |-> List([i \in 1..Len(index) |-> List([j \in 1..Len(columns) |->
                        IF PairRows(ok, index[i], columns[j]) = <<>> THEN fill
                        ELSE SumQuantity(PairRows(ok, index[i], columns[j]))])])]

\* reindex without fill_value: a label the pivot lacks gives NaN cells.
ReindexNaN(mat, index, columns, fill) ==
    [index   |-> index,
     columns |-> columns,
     values  |-> List([i \in 1..Len(index) |-> List([j \in 1..Len(columns) |->
                    IF index[i] \in Range(mat.index)
                       /\ columns[j] \in Range(mat.columns)
                    THEN mat.values[IndexOf(mat.index, index[i])]
                                   [IndexOf(mat.columns, columns[j])]
                    ELSE NA])])]

\* .reindex(index=..., columns=..., fill_value=fill): the given labels in the
\* given order, a label the pivot lacks giving cells of fill.
Reindex(mat, index, columns, fill) ==
    [index   |-> index,
     columns |-> columns,
     values  |-> List([i \in 1..Len(index) |-> List([j \in 1..Len(columns) |->
                    IF index[i] \in Range(mat.index)
                       /\ columns[j] \in Range(mat.columns)
                    THEN mat.values[IndexOf(mat.index, index[i])]
                                   [IndexOf(mat.columns, columns[j])]
                    ELSE fill])])]

\* full_matrix: the pivot of all ranked rows over the ranked countries.
FullMatrix(countries, df) ==
    Reindex(PivotTable(df, 0), countries, countries, 0)

\* seq[-n:] of Python: the last n entries.
PySliceTail(seq, n) ==
    IF n > 0 THEN SubSeq(seq, Max(1, Len(seq) - n + 1), Len(seq))
    ELSE SubSeq(seq, Min(0 - n, Len(seq)) + 1, Len(seq))

\* seq[:n] of Python.
PySlice(seq, n) ==
    IF n >= 0 THEN SubSeq(seq, 1, Min(n, Len(seq)))
    ELSE SubSeq(seq, 1, Max(0, Len(seq) + n))

\* DataFrame.loc[rows, cols] for labels the frame holds.
Loc(mat, rows, cols) ==
    [index   |-> rows,
     columns |-> cols,
     values  |-> List([i \in 1..Len(rows) |-> List([j \in 1..Len(cols) |->
                    mat.values[IndexOf(mat.index, rows[i])]
                              [IndexOf(mat.columns, cols[j])]])])]

\* What _slice_for_n returns: x, y and z = mat_n.to_numpy().tolist().
SliceResult(ordered, mat, n) ==
    LET countries == PySlice(ordered, n)
        mat_n     == Loc(mat, countries, countries)
    IN  [n |-> n, x |-> countries, y |-> countries, z |-> mat_n.values]

-----------------------------------------------------------------------------
(* Inputs.                                                                 *)

Row(e, i, p, q) == [exporter |-> e, importer |-> i, product |-> p, quantity |-> q]

\* Rows of the traded product: bilateral flows between two different codes.
OakRows ==
    {Row(p[1], p[2], OakProduct, q) :
        p \in {pp \in Codes \X Codes : pp[1] # pp[2]}, q \in Quantities}

\* One row of another product, which oak_df filters out.
OtherRows == {Row(1, 2, OakProduct + 1, 1)}

\* The worked example: A->B 10, B->A 5, A->C 1 (A, B, C are codes 2, 3, 1).
Example ==
    <<Row(2, 3, OakProduct, 10), Row(3, 2, OakProduct, 5),
      Row(2, 1, OakProduct, 1)>>

\* The trade files drawn: every file of at most MaxRecords rows, and the
\* worked example.
Files ==
    UNION {[1..k -> OakRows \cup OtherRows] : k \in 0..MaxRecords}
        \cup {Example}

\* The lookups drawn: the full one, and one that lacks the entry of code 3.
Lookups == {FullLookup, [c \in Codes \ {3} |-> FullLookup[c]]}

\* The slider values asked for: from below the slider's minimum of 2 to one
\* more than there are countries.
TopNs == 1..(Len(Alphabet) + 1)

-----------------------------------------------------------------------------
(* State machine.                                                          *)

Init ==
    /\ csv \in Files
    /\ codes \in Lookups
    /\ oak_df = None
    /\ country_ranks = None
    /\ ranked_oak_df = None
    /\ countries_ordered = None
    /\ full_matrix = None
    /\ out = None
    /\ prev = None
    /\ sess = None
    /\ bokeh = None
    /\ resp = None
    /\ rebuilt = None
    /\ arg = None
    /\ ret = None

\* The value of each cached_property after a read that reaches it: the
\* stored value when there is one, else the value computed now.
ReadOakDf == IF oak_df # None THEN oak_df ELSE Some(OakDf(csv, codes))

ReadCountryRanks ==
    IF country_ranks # None THEN country_ranks
    ELSE Some(CountryRanks(Val(ReadOakDf)))

ReadRankedOakDf ==
    IF ranked_oak_df # None THEN ranked_oak_df
    ELSE Some(RankedOakDf(Val(ReadOakDf), Val(ReadCountryRanks)))

ReadCountriesOrdered ==
    IF countries_ordered # None THEN countries_ordered
    ELSE Some(IndexToList(Val(ReadCountryRanks)))

ReadFullMatrix ==
    IF full_matrix # None THEN full_matrix
    ELSE Some(FullMatrix(Val(ReadCountriesOrdered), Val(ReadRankedOakDf)))

\* baci.oak_df is read for the first time (diagnostics); a later read returns
\* the stored value and changes nothing.
GetOakDf ==
    /\ oak_df = None
    /\ oak_df' = ReadOakDf
    /\ UNCHANGED <<csv, codes, country_ranks, ranked_oak_df,
                   countries_ordered, full_matrix, out, prev>>
    /\ UNCHANGED others

\* baci.country_ranks is read for the first time.
GetCountryRanks ==
    /\ country_ranks = None
    /\ oak_df' = ReadOakDf
    /\ country_ranks' = ReadCountryRanks
    /\ UNCHANGED <<csv, codes, ranked_oak_df, countries_ordered,
                   full_matrix, out, prev>>
    /\ UNCHANGED others

\* baci.ranked_oak_df is read for the first time (json, the front-ends' df).
GetRankedOakDf ==
    /\ ranked_oak_df = None
    /\ oak_df' = ReadOakDf
    /\ country_ranks' = ReadCountryRanks
    /\ ranked_oak_df' = ReadRankedOakDf
    /\ UNCHANGED <<csv, codes, countries_ordered, full_matrix, out, prev>>
    /\ UNCHANGED others

\* A front-end reads countries_ordered for the first time (max_n, the
\* slider's range).
GetCountriesOrdered ==
    /\ countries_ordered = None
    /\ oak_df' = ReadOakDf
    /\ country_ranks' = ReadCountryRanks
    /\ countries_ordered' = ReadCountriesOrdered
    /\ UNCHANGED <<csv, codes, ranked_oak_df, full_matrix, out, prev>>
    /\ UNCHANGED others

\* A front-end reads full_matrix for the first time.
GetFullMatrix ==
    /\ full_matrix = None
    /\ oak_df' = ReadOakDf
    /\ country_ranks' = ReadCountryRanks
    /\ ranked_oak_df' = ReadRankedOakDf
    /\ countries_ordered' = ReadCountriesOrdered
    /\ full_matrix' = ReadFullMatrix
    /\ UNCHANGED <<csv, codes, out, prev>>
    /\ UNCHANGED others

\* _slice_for_n that cuts the cached list itself (del countries[n:]).
SliceForNInPlace(n) ==
    /\ oak_df' = ReadOakDf
    /\ country_ranks' = ReadCountryRanks
    /\ ranked_oak_df' = ReadRankedOakDf
    /\ countries_ordered' = Some(PySlice(Val(ReadCountriesOrdered), n))
    /\ full_matrix' = ReadFullMatrix
    /\ out' = Some(SliceResult(Val(ReadCountriesOrdered), Val(ReadFullMatrix), n))
    /\ prev' = out
    /\ UNCHANGED <<csv, codes>>
    /\ UNCHANGED others

\* _slice_for_n(n) / slice_for_n(n) / _figure_for_n(n): the first n ranked
\* countries and their rows and columns of the cached full matrix.
SliceForN(n) ==
    /\ oak_df' = ReadOakDf
    /\ country_ranks' = ReadCountryRanks
    /\ ranked_oak_df' = ReadRankedOakDf
    /\ countries_ordered' = ReadCountriesOrdered
    /\ full_matrix' = ReadFullMatrix
    /\ out' = Some(SliceResult(Val(ReadCountriesOrdered), Val(ReadFullMatrix), n))
    /\ prev' = out
    /\ UNCHANGED <<csv, codes>>
    /\ UNCHANGED others

Next ==
    \/ GetOakDf
    \/ GetCountryRanks
    \/ GetRankedOakDf
    \/ GetCountriesOrdered
    \/ GetFullMatrix
    \/ \E n \in TopNs : SliceForN(n)

Spec == Init /\ [][Next]_vars

-----------------------------------------------------------------------------
(* What the claims speak of, computed from the records themselves.         *)

\* The countries that appear as exporter or as importer.
Countries(rows) ==
    ({rows[i].exporter_name : i \in 1..Len(rows)}
        \cup {rows[i].importer_name : i \in 1..Len(rows)}) \ {NaN}

ExportTotal(rows, c) ==
    SumQuantity(SelectSeq(rows, LAMBDA r : r.exporter_name = c))

ImportTotal(rows, c) ==
    SumQuantity(SelectSeq(rows, LAMBDA r : r.importer_name = c))

TradeTotal(rows, c) == ExportTotal(rows, c) + ImportTotal(rows, c)

\* The first row that names the country.
FirstSeen(rows, c) ==
    CHOOSE i \in 1..Len(rows) :
        /\ c \in {rows[i].exporter_name, rows[i].importer_name}
        /\ \A j \in 1..(i - 1) :
               c \notin {rows[j].exporter_name, rows[j].importer_name}

Sooner(a, b) == IndexOf(Alphabet, a) < IndexOf(Alphabet, b)

\* The records, the ranking and the number K of countries of a state in which
\* the ranking has been computed.
Records == Val(oak_df)

Ranks == Val(country_ranks)

K == Cardinality(Countries(Records))

RankOf(c) == At(Ranks, c)

\* The countries tied with a and b hold all the ranks from a's to b's.
TiedBlock(a, b) ==
    \A c \in Countries(Records) :
        (RankOf(a) < RankOf(c) /\ RankOf(c) < RankOf(b))
            => TradeTotal(Records, c) = TradeTotal(Records, a)

\* The last slice returned, and whether it was asked within [2, K].
Slice == Val(out)

InRange(n) == 2 <= n /\ n <= K

\* C1: for a non-empty record set the ranks of country_ranks are exactly
\* 1..K, each held once, K being the number of distinct countries that
\* appear as exporter or as importer.
C1_RanksAreOneToK ==
    (country_ranks # None /\ Records # <<>>) =>
        /\ Len(Ranks) = K
        /\ {Ranks[i].val : i \in 1..Len(Ranks)} = 1..K

\* C1 witness: three countries are ranked and two of them have equal totals.
C1_Witness ==
    /\ country_ranks # None
    /\ K = 3
    /\ \E a, b \in Countries(Records) :
           a # b /\ TradeTotal(Records, a) = TradeTotal(Records, b)

\* C2: a country with a larger total trade volume (exported plus imported
\* quantity) has a smaller rank, and rank 1 is held by a country with the
\* largest total.
C2_RanksFollowTotals ==
    country_ranks # None =>
        /\ \A a, b \in Keys(Ranks) :
               TradeTotal(Records, a) > TradeTotal(Records, b)
                   => RankOf(a) < RankOf(b)
        /\ \A i \in 1..Len(Ranks) :
               Ranks[i].val = 1 =>
                   \A c \in Countries(Records) :
                       TradeTotal(Records, Ranks[i].key) >= TradeTotal(Records, c)

\* C2 witness: three ranked countries with three different totals.
C2_Witness ==
    /\ country_ranks # None
    /\ Cardinality({TradeTotal(Records, c) : c \in Countries(Records)}) = 3

\* C3: every country of the records is ranked exactly once, also one that
\* only exports or only imports, and its total is the sum of its two sides,
\* the missing side counting as 0.
C3_OneSidedCountriesRanked ==
    country_ranks # None =>
        \A c \in Countries(Records) :
            /\ Cardinality({i \in 1..Len(Ranks) : Ranks[i].key = c}) = 1
            /\ c \in Keys(Total(Records))
            /\ At(Total(Records), c) = TradeTotal(Records, c)

\* C3 witness: a ranked country that exports a positive quantity and never
\* imports, next to one that imports and never exports.
C3_Witness ==
    /\ country_ranks # None
    /\ \E a, b \in Keys(Ranks) :
           /\ ExportTotal(Records, a) > 0
           /\ \A i \in 1..Len(Records) : Records[i].importer_name # a
           /\ \A i \in 1..Len(Records) : Records[i].exporter_name # b

C5_OrderedByRank ==
    /\ country_ranks # None =>
           \A k \in 1..Len(Ranks) : Ranks[k].val = k
    /\ countries_ordered # None =>
           /\ Len(Val(countries_ordered)) = K
           /\ \A k \in 1..K :
                  /\ Val(countries_ordered)[k] \in Keys(Ranks)
                  /\ RankOf(Val(countries_ordered)[k]) = k

\* C5 witness: a front-end holds three countries whose rank order is not the
\* order of their names.
C5_Witness ==
    /\ countries_ordered # None
    /\ K = 3
    /\ Val(countries_ordered) # Alphabet

\* The rows of the pair whose importer has rank i and whose exporter has
\* rank j.
RankedPairRows(i, j) == PairRows(Records, Ranks[i].key, Ranks[j].key)

\* C6: the matrix returned for a top_n in [2, K] has exactly top_n rows and
\* top_n columns, every cell holds a number, and every cell whose
\* importer/exporter pair has no record holds 0.
C6_SliceIsDense ==
    (out # None /\ InRange(Slice.n)) =>
        /\ Len(Slice.x) = Slice.n
        /\ Len(Slice.y) = Slice.n
        /\ Len(Slice.z) = Slice.n
        /\ \A i \in 1..Len(Slice.z) :
               /\ Len(Slice.z[i]) = Slice.n
               /\ \A j \in 1..Len(Slice.z[i]) :
                      /\ Slice.z[i][j] \in Nat
                      /\ PairRows(Records, Slice.y[i], Slice.x[j]) = <<>>
                             => Slice.z[i][j] = 0

\* C6 witness: a slice within [2, K] of which one country never imports, so
\* that its whole row has no record, while another cell is positive.
C6_Witness ==
    /\ out # None
    /\ InRange(Slice.n)
    /\ \E i \in 1..Slice.n : ImportTotal(Records, Slice.y[i]) = 0
                              /\ ExportTotal(Records, Slice.y[i]) > 0
    /\ \E i, j \in 1..Slice.n : Slice.z[i][j] > 0

\* C7: for a top_n in [2, K] rows are importers and columns are exporters,
\* both in ascending rank order, and cell [i][j] is the sum of quantity over
\* all records whose importer has rank i+1 and whose exporter has rank j+1
\* (the model counts rows and columns from 1).
C7_CellsAreImporterByExporter ==
    (out # None /\ InRange(Slice.n)) =>
        /\ Slice.x = [k \in 1..Slice.n |-> Ranks[k].key]
        /\ Slice.y = [k \in 1..Slice.n |-> Ranks[k].key]
        /\ Slice.z = [i \in 1..Slice.n |-> [j \in 1..Slice.n |->
                         SumQuantity(RankedPairRows(i, j))]]

\* C7 witness: a slice within [2, K] with a pair that has two records of
\* positive quantity and whose opposite direction holds another sum.
C7_Witness ==
    /\ out # None
    /\ InRange(Slice.n)
    /\ \E i, j \in 1..Slice.n :
           /\ Len(RankedPairRows(i, j)) >= 2
           /\ \A r \in 1..Len(RankedPairRows(i, j)) :
                  RankedPairRows(i, j)[r].quantity > 0
           /\ Slice.z[i][j] # Slice.z[j][i]

\* The records of the worked example, by name.
IsExample ==
    [i \in 1..Len(Records) |->
        <<Records[i].exporter_name, Records[i].importer_name, Records[i].quantity>>]
    = << <<"A", "B", 10>>, <<"B", "A", 5>>, <<"A", "C", 1>> >>

\* C8 as stated: for the records A->B 10, B->A 5, A->C 1 the ranks are A=1,
\* B=2, C=3 and the matrix for top_n = 2 over A, B, importer rows and
\* exporter columns in rank order, is [[0,10],[5,0]].
C8_WorkedExampleAsStated ==
    /\ (country_ranks # None /\ IsExample) =>
           Ranks = << [key |-> "A", val |-> 1], [key |-> "B", val |-> 2],
                      [key |-> "C", val |-> 3] >>
    /\ (out # None /\ IsExample /\ Slice.n = 2) =>
           /\ Slice.x = <<"A", "B">>
           /\ Slice.y = <<"A", "B">>
           /\ Slice.z = << <<0, 10>>, <<5, 0>> >>

\* C8 as amended: for the same records the ranks are A=1, B=2, C=3 and the
\* matrix for top_n = 2 over A, B, importer rows and exporter columns in rank
\* order, is [[0,5],[10,0]]: the 10 that A exports to B stands in the row of
\* importer B and the column of exporter A.
C8_WorkedExample ==
    /\ (country_ranks # None /\ IsExample) =>
           Ranks = << [key |-> "A", val |-> 1], [key |-> "B", val |-> 2],
                      [key |-> "C", val |-> 3] >>
    /\ (out # None /\ IsExample /\ Slice.n = 2) =>
           /\ Slice.x = <<"A", "B">>
           /\ Slice.y = <<"A", "B">>
           /\ Slice.z = << <<0, 5>>, <<10, 0>> >>

\* C8 witness: the slice for top_n = 2 of the worked example was returned.
C8_Witness == out # None /\ IsExample /\ Slice.n = 2

\* The matrix big has one more row and column than small, and agrees with
\* it on every label and cell of small.
GrowsByOne(small, big) ==
    /\ Len(big.z) = Len(small.z) + 1
    /\ Len(big.x) = Len(small.x) + 1
    /\ Len(big.y) = Len(small.y) + 1
    /\ \A i \in 1..Len(big.z) : Len(big.z[i]) = Len(small.x) + 1
    /\ SubSeq(big.x, 1, Len(small.x)) = small.x
    /\ SubSeq(big.y, 1, Len(small.y)) = small.y
    /\ \A i \in 1..Len(small.z) : \A j \in 1..Len(small.z[i]) :
           big.z[i][j] = small.z[i][j]

\* C9: for 2 <= top_n < K the matrix for top_n + 1 has one more row and one
\* more column than the matrix for top_n, with the same first top_n labels
\* and the same values in every cell of the matrix for top_n. Stated of two
\* slices returned one after the other, in either order.
C9_SliceGrowsByOne ==
    (out # None /\ prev # None) =>
        /\ (Slice.n = Val(prev).n + 1 /\ 2 <= Val(prev).n /\ Val(prev).n < K)
               => GrowsByOne(Val(prev), Slice)
        /\ (Val(prev).n = Slice.n + 1 /\ 2 <= Slice.n /\ Slice.n < K)
               => GrowsByOne(Slice, Val(prev))

\* C9 witness: the slice for 3 was returned right after the slice for 2, and
\* the third country trades with the first two.
C9_Witness ==
    /\ out # None
    /\ prev # None
    /\ Val(prev).n = 2
    /\ Slice.n = 3
    /\ K = 3
    /\ \E j \in 1..2 : Slice.z[3][j] > 0 \/ Slice.z[j][3] > 0

\* The slice for n computed from the input files alone.
FreshSlice(n) ==
    LET rows      == OakDf(csv, codes)
        ranks     == CountryRanks(rows)
        countries == IndexToList(ranks)
    IN  SliceResult(countries,
                    FullMatrix(countries, RankedOakDf(rows, ranks)), n)

\* C10: the labels and matrix returned for a top_n depend only on the
\* records and top_n: after any earlier slices the result is the one a first
\* call would give, and two calls in a row with the same top_n agree.
C10_SliceIsIdempotent ==
    out # None =>
        /\ Slice = FreshSlice(Slice.n)
        /\ (prev # None /\ Val(prev).n = Slice.n) => Val(prev) = Slice

\* C10 witness: a slice within [2, K] returned after a slice for a smaller
\* top_n.
C10_Witness ==
    /\ out # None
    /\ prev # None
    /\ InRange(Slice.n)
    /\ Val(prev).n < Slice.n

\* C11: a request with top_n < 2 or top_n > K is rejected with an
\* invalid-argument error, so no matrix is ever returned for such a top_n:
\* every result returned answers a top_n within [2, K] and has top_n rows
\* and top_n columns.
C11_InvalidTopNRejected ==
    out # None =>
        /\ InRange(Slice.n)
        /\ Len(Slice.z) = Slice.n
        /\ Len(Slice.x) = Slice.n
        /\ Len(Slice.y) = Slice.n

RECURSIVE SumVals(_)
\* The sum of the values of a Series.
SumVals(s) == IF s = <<>> THEN 0 ELSE Head(s).val + SumVals(Tail(s))

\* C12: a record whose exporter or importer code has no entry in the lookup
\* makes the computation report a data-quality error, so a ranking or a
\* full matrix exists only when every record has both names, and then every
\* record's quantity is counted once on each side of the totals and once in
\* the matrix.
C12_UnknownCodeReported ==
    /\ country_ranks # None =>
           /\ \A i \in 1..Len(Records) :
                  Records[i].exporter_name # NaN /\ Records[i].importer_name # NaN
           /\ SumVals(Total(Records)) = 2 * SumQuantity(Records)
    /\ full_matrix # None =>
           \A i \in 1..Len(Records) :
               /\ Records[i].exporter_name \in Range(Val(full_matrix).columns)
               /\ Records[i].importer_name \in Range(Val(full_matrix).index)

-----------------------------------------------------------------------------
(* The dataset file changes under a live BaciDataset.                      *)

\* The trade files of the smaller specifications: the files whose rows all
\* carry one unit of the traded product, and the worked example.
UnitFiles ==
    {f \in Files : \A i \in 1..Len(f) :
                       f[i].product = OakProduct /\ f[i].quantity = 1}
        \cup {Example}

InitReload ==
    /\ csv \in UnitFiles
    /\ codes \in Lookups
    /\ oak_df = None
    /\ country_ranks = None
    /\ ranked_oak_df = None
    /\ countries_ordered = None
    /\ full_matrix = None
    /\ out = None
    /\ prev = None
    /\ sess = None
    /\ bokeh = None
    /\ resp = None
    /\ rebuilt = None
    /\ arg = None
    /\ ret = None

\* The ZIP at zip_path is replaced by another one (a new download, a new
\* release): df and country_codes, which open the file on every call, read
\* the new content from then on. No attribute of baci is touched.
ReplaceZip ==
    /\ \E f \in UnitFiles, l \in Lookups :
           /\ <<f, l>> # <<csv, codes>>
           /\ csv' = f
           /\ codes' = l
    /\ UNCHANGED <<oak_df, country_ranks, ranked_oak_df, countries_ordered,
                   full_matrix, out, prev>>
    /\ UNCHANGED others

NextReload ==
    \/ ReplaceZip
    \/ GetOakDf
    \/ GetCountryRanks
    \/ GetRankedOakDf

SpecReload == InitReload /\ [][NextReload]_vars

\* C13: the ranking is recomputed whenever the record set changes: a read of
\* country_ranks or of ranked_oak_df gives the ranking of the records the
\* dataset file holds now, also after the file was replaced (a read returns
\* the memoised value when there is one).
C13_RanksFollowTheRecordSet ==
    /\ country_ranks # None =>
           Ranks = CountryRanks(OakDf(csv, codes))
    /\ ranked_oak_df # None =>
           Val(ranked_oak_df) =
               RankedOakDf(OakDf(csv, codes), CountryRanks(OakDf(csv, codes)))

-----------------------------------------------------------------------------
(* Several sessions of one server front-end (Dash callbacks, Shiny         *)
(* sessions): each request runs _figure_for_n / _slice_for_n statement by  *)
(* statement on its own locals, next to the requests of the others.        *)

Sessions == 1..MaxSessions

\* The datasets the sessions are served from.
SessionFiles == {Example, <<Row(1, 2, OakProduct, 1)>>}

\* A session with no request under way; res is the last answer it got.
Idle(res) == [pc |-> "idle", n |-> 0, countries |-> <<>>, res |-> res]

InitSessions ==
    /\ csv \in SessionFiles
    /\ codes \in Lookups
    /\ oak_df = None
    /\ country_ranks = None
    /\ ranked_oak_df = None
    /\ countries_ordered = None
    /\ full_matrix = None
    /\ out = None
    /\ prev = None
    /\ sess = [s \in Sessions |-> Idle(None)]
    /\ bokeh = None
    /\ resp = None
    /\ rebuilt = None
    /\ arg = None
    /\ ret = None

\* The slider of session s moves to n: _update(top_n) / mat_n() starts.
Request(s, n) ==
    /\ sess[s].pc = "idle"
    /\ sess' = [sess EXCEPT ![s] =
                   [pc |-> "slice", n |-> n, countries |-> <<>>, res |-> None]]
    /\ UNCHANGED <<csv, codes, oak_df, country_ranks, ranked_oak_df,
                   countries_ordered, full_matrix, out, prev,
                   bokeh, resp, rebuilt, arg, ret>>

\* countries = self.countries_ordered[:n]: a new list in a local.
SliceCountries(s) ==
    /\ sess[s].pc = "slice"
    /\ oak_df' = ReadOakDf
    /\ country_ranks' = ReadCountryRanks
    /\ countries_ordered' = ReadCountriesOrdered
    /\ sess' = [sess EXCEPT ![s].pc = "matrix",
                            ![s].countries =
                                PySlice(Val(ReadCountriesOrdered), sess[s].n)]
    /\ UNCHANGED <<csv, codes, ranked_oak_df, full_matrix, out, prev,
                   bokeh, resp, rebuilt, arg, ret>>

\* self.full_matrix is read: cached_property looks the attribute up and
\* either finds the matrix or goes on to build it.
LookupFullMatrix(s) ==
    /\ sess[s].pc = "matrix"
    /\ sess' = [sess EXCEPT ![s].pc =
                   IF full_matrix # None THEN "loc" ELSE "build"]
    /\ UNCHANGED <<csv, codes, oak_df, country_ranks, ranked_oak_df,
                   countries_ordered, full_matrix, out, prev,
                   bokeh, resp, rebuilt, arg, ret>>

\* The session that found no matrix builds it and stores it; another session
\* that missed it as well builds and stores it again.
BuildFullMatrix(s) ==
    /\ sess[s].pc = "build"
    /\ oak_df' = ReadOakDf
    /\ country_ranks' = ReadCountryRanks
    /\ ranked_oak_df' = ReadRankedOakDf
    /\ countries_ordered' = ReadCountriesOrdered
    /\ full_matrix' = Some(FullMatrix(Val(ReadCountriesOrdered),
                                      Val(ReadRankedOakDf)))
    /\ sess' = [sess EXCEPT ![s].pc = "loc"]
    /\ UNCHANGED <<csv, codes, out, prev, bokeh, resp, rebuilt, arg, ret>>

\* The request with countries kept in an attribute of the shared front-end
\* object in place of a local: the slice is cut with the list the last
\* session under way wrote there.
LocSliceSharedCountries(s) ==
    LET writers == {t \in Sessions : sess[t].pc \in {"matrix", "build", "loc"}}
        last    == CHOOSE t \in writers : \A u \in writers : u <= t
        shared  == sess[last].countries
    IN  /\ sess[s].pc = "loc"
        /\ sess' = [sess EXCEPT ![s] =
                       Idle(Some([n |-> sess[s].n,
                                  x |-> shared,
                                  y |-> shared,
                                  z |-> Loc(Val(full_matrix), shared, shared).values]))]
        /\ UNCHANGED <<csv, codes, oak_df, country_ranks, ranked_oak_df,
                       countries_ordered, full_matrix, out, prev,
                       bokeh, resp, rebuilt, arg, ret>>

\* .loc[countries, countries] on the shared matrix: the answer of the request.
LocSlice(s) ==
    /\ sess[s].pc = "loc"
    /\ sess' = [sess EXCEPT ![s] =
                   Idle(Some([n |-> sess[s].n,
                              x |-> sess[s].countries,
                              y |-> sess[s].countries,
                              z |-> Loc(Val(full_matrix), sess[s].countries,
                                        sess[s].countries).values]))]
    /\ UNCHANGED <<csv, codes, oak_df, country_ranks, ranked_oak_df,
                   countries_ordered, full_matrix, out, prev,
                   bokeh, resp, rebuilt, arg, ret>>

NextSessions ==
    \E s \in Sessions :
        \/ \E n \in TopNs : Request(s, n)
        \/ SliceCountries(s)
        \/ LookupFullMatrix(s)
        \/ BuildFullMatrix(s)
        \/ LocSlice(s)

SpecSessions == InitSessions /\ [][NextSessions]_vars

\* C14: under any interleaving of the requests of several sessions the
\* cached full matrix, once built, never changes, and every answer is the
\* slice for the session's own top_n that a request running alone on the
\* same records gets.
C14_SessionsShareReadOnlyMatrix ==
    /\ [][full_matrix # None => full_matrix' = full_matrix]_vars
    /\ [](\A s \in Sessions :
              sess[s].res # None =>
                  Val(sess[s].res) = FreshSlice(Val(sess[s].res).n))

\* C14 witness: one session got its answer for top_n = 2 while another, which
\* asked for 3 and missed the matrix too, is about to build it again.
C14_Witness ==
    /\ sess # None
    /\ full_matrix # None
    /\ K = 3
    /\ \E s, t \in Sessions :
           /\ s # t
           /\ sess[s].res # None
           /\ Val(sess[s].res).n = 2
           /\ sess[t].pc = "build"
           /\ sess[t].n = 3

-----------------------------------------------------------------------------
(* common.split_thousands. A str is the list of its characters; a value is *)
(* [kind, v] with kind the Python type ("NoneType", "int", "float") and, for *)
(* a float, v either the whole number it holds or NA for nan.              *)

Digit(d) == <<"0", "1", "2", "3", "4", "5", "6", "7", "8", "9">>[d + 1]

Abs(n) == IF n < 0 THEN 0 - n ELSE n

RECURSIVE StrNat(_)
\* str(n) for n >= 0.
StrNat(n) ==
    IF n < 10 THEN <<Digit(n)>>
    ELSE Append(StrNat(n \div 10), Digit(n % 10))

RECURSIVE GroupLeft(_)
\* The digits cut into threes from the left.
GroupLeft(d) ==
    IF Len(d) <= 3 THEN d
    ELSE SubSeq(d, 1, 3) \o <<",">> \o GroupLeft(SubSeq(d, 4, Len(d)))

RECURSIVE Group(_)
\* The "," option of the format mini-language: a comma before every group
\* of three digits counted from the right.
Group(d) ==
    IF Len(d) <= 3 THEN d
    ELSE Group(SubSeq(d, 1, Len(d) - 3)) \o <<",">>
            \o SubSeq(d, Len(d) - 2, Len(d))

\* f"{n:,}" for an int n.
FormatComma(n) ==
    (IF n < 0 THEN <<"-">> ELSE <<>>) \o Group(StrNat(Abs(n)))

\* str.replace that finds nothing to replace.
ReplaceNothing(text, old, new) == text

\* text.replace(old, new) for one-character old and new.
Replace(text, old, new) ==
    List([i \in 1..Len(text) |-> IF text[i] = old THEN new ELSE text[i]])

\* split_thousands(value) with the default decimals, for None, an int, and a
\* float that is nan or holds a whole number.
split_thousands(value) ==
    CASE value.kind = "NoneType" -> <<"0">>
      [] value.kind = "int" -> Replace(FormatComma(value.v), ",", "'")
      [] value.kind = "float" /\ value.v = NA -> <<"0">>
      [] value.kind = "float" /\ value.v # NA ->
             Replace(FormatComma(value.v), ",", "'")

RECURSIVE Pow10(_)
Pow10(k) == IF k = 0 THEN 1 ELSE 10 * Pow10(k - 1)

\* The numbers drawn: small ones, the ends of the digit groups and the
\* docstring's 1000012, each scaled by a power of ten, with both signs.
Numbers ==
    {sgn * m * Pow10(k) :
        sgn \in {-1, 1},
        m \in {0, 1, 7, 12, 99, 100, 999, 1000, 1001, 12345, 1000012},
        k \in 0..MaxShift}

Values ==
    {[kind |-> "int", v |-> n] : n \in Numbers}
        \cup {[kind |-> "float", v |-> n] : n \in {0, 5, 1000, NA}}
        \cup {[kind |-> "NoneType", v |-> 0]}

InitThousands ==
    /\ csv = <<>>
    /\ codes = FullLookup
    /\ oak_df = None
    /\ country_ranks = None
    /\ ranked_oak_df = None
    /\ countries_ordered = None
    /\ full_matrix = None
    /\ out = None
    /\ prev = None
    /\ sess = None
    /\ bokeh = None
    /\ resp = None
    /\ rebuilt = None
    /\ arg \in {Some(v) : v \in Values}
    /\ ret = None

\* split_thousands(arg) is called and returns.
CallSplitThousands ==
    /\ ret = None
    /\ ret' = Some(split_thousands(Val(arg)))
    /\ UNCHANGED <<csv, codes, oak_df, country_ranks, ranked_oak_df,
                   countries_ordered, full_matrix, out, prev,
                   sess, bokeh, resp, rebuilt, arg>>

NextThousands == CallSplitThousands

SpecThousands == InitThousands /\ [][NextThousands]_vars

Digits == {Digit(d) : d \in 0..9}

\* The number a string of digits spells.
RECURSIVE ParseNat(_)
ParseNat(text) ==
    IF text = <<>> THEN 0
    ELSE 10 * ParseNat(SubSeq(text, 1, Len(text) - 1))
            + (CHOOSE d \in 0..9 : Digit(d) = text[Len(text)])

\* The text without its sign, and without its apostrophes.
Unsigned(text) ==
    IF text # <<>> /\ text[1] = "-" THEN Tail(text) ELSE text

Ungrouped(text) == SelectSeq(text, LAMBDA c : c # "'")

\* C17: for an int value split_thousands returns the sign, if negative, and
\* the decimal digits in groups of three counted from the right, an
\* apostrophe between two groups and nowhere else, no decimal part; without
\* the apostrophes the text is the decimal representation of the value
\* (1000012 gives 1'000'012).
C17_SplitThousandsGroupsDigits ==
    (ret # None /\ Val(arg).kind = "int") =>
        LET text == Val(ret)
            body == Unsigned(text)
        IN  /\ (text[1] = "-") <=> (Val(arg).v < 0)
            /\ body # <<>>
            /\ \A i \in 1..Len(body) :
                   IF (Len(body) - i + 1) % 4 = 0 THEN body[i] = "'"
                   ELSE body[i] \in Digits
            /\ Ungrouped(body)[1] = "0" => Ungrouped(body) = <<"0">>
            /\ ParseNat(Ungrouped(body)) = Abs(Val(arg).v)
            /\ Val(arg).v = 1000012 =>
                   text = <<"1", "'", "0", "0", "0", "'", "0", "1", "2">>

\* C17 witness: a negative number of more than six digits was formatted with
\* two apostrophes.
C17_Witness ==
    /\ ret # None
    /\ Val(arg).kind = "int"
    /\ Val(arg).v < -1000000
    /\ Len(SelectSeq(Val(ret), LAMBDA c : c = "'")) = 2

-----------------------------------------------------------------------------
(* The static Bokeh page: BokehHeatmapResize.layout builds the document in *)
(* Python, SLIDER_JS_CODE updates it in the browser. The value column and  *)
(* value_display are carried like quantity and quantity_display and are    *)
(* left out.                                                               *)

\* The lower clamp of the colour scale (low).
Low(df) ==
    LET positive     == {df[i].quantity : i \in {j \in 1..Len(df) : df[j].quantity > 0}}
        min_positive == IF positive = {} THEN 1
                        ELSE CHOOSE q \in positive : \A r \in positive : q <= r
        max_positive == IF positive = {} THEN 1
                        ELSE CHOOSE q \in positive : \A r \in positive : q >= r
    IN  IF max_positive >= 1 THEN 1 ELSE min_positive

\* df after the three column assignments of layout.
DisplayColumns(df) ==
    List([i \in 1..Len(df) |->
        [exporter         |-> df[i].exporter,
         importer         |-> df[i].importer,
         quantity         |-> df[i].quantity,
         exporter_name    |-> df[i].exporter_name,
         importer_name    |-> df[i].importer_name,
         exporter_rank    |-> df[i].exporter_rank,
         importer_rank    |-> df[i].importer_rank,
         quantity_color   |-> Max(df[i].quantity, Low(df)),
         quantity_display |->
             split_thousands([kind |-> "float", v |-> df[i].quantity])]])

\* The cached frame after a layout that assigns its columns to
\* baci.ranked_oak_df itself.
CachedAfterLayoutInPlace(cached) == DisplayColumns(cached)

\* The cached frame after layout: df is baci.ranked_oak_df.copy(), so the
\* column assignments do not reach the cached frame.
CachedAfterLayout(cached) == cached

\* df[[name, rank]].drop_duplicates().sort_values(rank)[name].tolist(): the
\* names of one side in the order of their ranks, an unranked name last.
NamesByRank(df, name, rank) ==
    LET pairs  == {<<df[i][name], df[i][rank]>> : i \in 1..Len(df)}
        pos(p) == 1 + Cardinality({q \in pairs : RankKeyLess(q[2], p[2])})
    IN  List([k \in 1..Cardinality(pairs) |->
            (CHOOSE p \in pairs : pos(p) = k)[1]])

\* side_rank <= n as pandas compares: False for NaN.
RankLeq(r, n) == r # NA /\ r <= n

\* The mask with | in place of &: one side within the top n is enough.
RankMaskEither(df, n) ==
    SelectSeq(df, LAMBDA r : RankLeq(r.exporter_rank, n)
                             \/ RankLeq(r.importer_rank, n))

\* df[(df["exporter_rank"] <= n) & (df["importer_rank"] <= n)].
RankMask(df, n) ==
    SelectSeq(df, LAMBDA r : RankLeq(r.exporter_rank, n)
                             /\ RankLeq(r.importer_rank, n))

\* list(reversed(seq)) / seq.slice().reverse().
Reversed(seq) == List([i \in 1..Len(seq) |-> seq[Len(seq) - i + 1]])

\* The document layout returns.
Document(ranked, ranks) ==
    LET df                == DisplayColumns(ranked)
        max_n             == Len(ranks)
        initial_n         == Min(DefaultN, max_n)
        exporters_ordered == NamesByRank(df, "exporter_name", "exporter_rank")
        importers_ordered == NamesByRank(df, "importer_name", "importer_rank")
    IN  [source_all  |-> df,
         source_view |-> RankMask(df, initial_n),
         x_range     |-> PySlice(exporters_ordered, initial_n),
         y_range     |-> Reversed(PySlice(importers_ordered, initial_n)),
         exporters   |-> exporters_ordered,
         importers   |-> importers_ordered,
         max_n       |-> max_n,
         initial_n   |-> initial_n,
         value       |-> initial_n]

\* The view the JavaScript callback would set had it filtered by rank.
FilterByRank(doc, N) == RankMask(doc.source_all, N)

\* The rows SLIDER_JS_CODE keeps: those whose exporter is one of x_factors
\* and whose importer is one of y_factors.
FilterByFactors(doc, N) ==
    LET x_factors == PySlice(doc.exporters, N)
        y_factors == Reversed(PySlice(doc.importers, N))
    IN  SelectSeq(doc.source_all,
                  LAMBDA r : r.exporter_name \in Range(x_factors)
                             /\ r.importer_name \in Range(y_factors))

InitBokeh ==
    /\ csv \in UnitFiles
    /\ codes = FullLookup
    /\ oak_df = None
    /\ country_ranks = None
    /\ ranked_oak_df = None
    /\ countries_ordered = None
    /\ full_matrix = None
    /\ out = None
    /\ prev = None
    /\ sess = None
    /\ bokeh = None
    /\ resp = None
    /\ rebuilt = None
    /\ arg = None
    /\ ret = None

\* bokeh_heatmap_resize.layout is read for the first time (the page is saved).
BokehLayout ==
    /\ bokeh = None
    /\ oak_df' = ReadOakDf
    /\ country_ranks' = ReadCountryRanks
    /\ ranked_oak_df' = Some(CachedAfterLayout(Val(ReadRankedOakDf)))
    /\ bokeh' = Some(Document(Val(ReadRankedOakDf), Val(ReadCountryRanks)))
    /\ UNCHANGED <<csv, codes, countries_ordered, full_matrix, out, prev,
                   sess, resp, rebuilt, arg, ret>>

\* The reader moves the slider of the saved page to N: SLIDER_JS_CODE runs.
BokehSlider(N) ==
    /\ bokeh # None
    /\ 2 <= N
    /\ N <= Val(bokeh).max_n
    /\ N # Val(bokeh).value
    /\ bokeh' = Some([Val(bokeh) EXCEPT
                        !.value       = N,
                        !.x_range     = PySlice(Val(bokeh).exporters, N),
                        !.y_range     = Reversed(PySlice(Val(bokeh).importers, N)),
                        !.source_view = FilterByFactors(Val(bokeh), N)])
    /\ UNCHANGED <<csv, codes, oak_df, country_ranks, ranked_oak_df,
                   countries_ordered, full_matrix, out, prev,
                   sess, resp, rebuilt, arg, ret>>

NextBokeh ==
    \/ GetOakDf
    \/ GetCountryRanks
    \/ GetRankedOakDf
    \/ GetCountriesOrdered
    \/ GetFullMatrix
    \/ \E n \in TopNs : SliceForN(n)
    \/ BokehLayout
    \/ \E N \in TopNs : BokehSlider(N)

SpecBokeh == InitBokeh /\ [][NextBokeh]_vars

\* C15: building a matrix or a chart leaves the shared data alone: once
\* oak_df, country_ranks or ranked_oak_df is memoised, no front-end build, no
\* Top-N slice and no Bokeh layout changes its rows, columns or row order.
C15_BuildsLeaveSharedDataAlone ==
    [][/\ oak_df # None => oak_df' = oak_df
       /\ country_ranks # None => country_ranks' = country_ranks
       /\ ranked_oak_df # None => ranked_oak_df' = ranked_oak_df]_vars

\* C15 witness: the Bokeh page was laid out with its display columns after a
\* front-end had sliced its matrix, and ranked_oak_df has no such column.
C15_Witness ==
    /\ bokeh # None
    /\ out # None
    /\ Len(Val(bokeh).source_all) >= 2
    /\ \A i \in 1..Len(Val(bokeh).source_all) :
           "quantity_display" \in DOMAIN Val(bokeh).source_all[i]
    /\ \A i \in 1..Len(Val(ranked_oak_df)) :
           "quantity_display" \notin DOMAIN Val(ranked_oak_df)[i]

\* C20: for every slider value N, the initial one or one reached by moving
\* the slider, the rows shown (source_view) are exactly the records with
\* exporter_rank <= N and importer_rank <= N; at the initial value the view
\* is the initial view again.
C20_ViewIsRankFilter ==
    bokeh # None =>
        /\ Val(bokeh).source_view = FilterByRank(Val(bokeh), Val(bokeh).value)
        /\ Val(bokeh).value = Val(bokeh).initial_n =>
               Val(bokeh).source_view =
                   RankMask(Val(bokeh).source_all, Val(bokeh).initial_n)

-----------------------------------------------------------------------------
(* filter_baci.select_n_largest_partners (load_baci holds the same code).  *)
(* A frame is [columns, rows]: the set of its column names and its rows,   *)
(* each a record over those columns. An exception that leaves the function *)
(* is the value KeyError.                                                  *)

KeyError == [error |-> "KeyError"]

AllColumns ==
    {"year", "exporter", "importer", "product", "value", "quantity",
     "exporter_name", "importer_name"}

\* The year of the dump and the code given to the rest of the world.
Year == 2023

RowCode == -1

\* Names in the order Python compares strings, "ROW" after "A", "B", "C".
PartnerNames == Alphabet \o <<"ROW">>

\* frame[cols]: the columns asked for, KeyError when one of them is missing.
Columns(frame, cols) ==
    IF cols \subseteq frame.columns
    THEN [columns |-> cols,
          rows    |-> List([i \in 1..Len(frame.rows) |->
                          [c \in cols |-> frame.rows[i][c]]])]
    ELSE KeyError

\* frame[col] = v: one more column, the same value in every row.
WithColumn(frame, col, v) ==
    [columns |-> frame.columns \cup {col},
     rows    |-> List([i \in 1..Len(frame.rows) |->
                     [c \in frame.columns \cup {col} |->
                         IF c = col THEN v ELSE frame.rows[i][c]]])]

RECURSIVE SumColumn(_, _)
SumColumn(rows, col) ==
    IF rows = <<>> THEN 0 ELSE Head(rows)[col] + SumColumn(Tail(rows), col)

\* The sets head(n) of the totals sorted descending can hold: n keys (all of
\* them when there are fewer) none of which has a smaller total than a key
\* left out; which of several tied keys is taken is left open.
TopSets(totals, n) ==
    {S \in SUBSET Keys(totals) :
        /\ Cardinality(S) = Min(n, Len(totals))
        /\ \A a \in S, b \in Keys(totals) \ S : At(totals, a) >= At(totals, b)}

\* rows.groupby(["year", name, "product"]).agg({"value": "sum", "quantity":
\* "sum"}).reset_index(), for rows of one year and one product: one row per
\* name in sorted order, rows with a NaN name left out.
GroupAgg(rows, name) ==
    LET names == SelectSeq(PartnerNames,
                     LAMBDA x : x \in {rows[i][name] : i \in 1..Len(rows)} \ {NaN})
        of(x) == SelectSeq(rows, LAMBDA r : r[name] = x)
    IN  [columns |-> {"year", name, "product", "value", "quantity"},
         rows    |-> List([k \in 1..Len(names) |->
                         (name :> names[k])
                         @@ [year     |-> of(names[k])[1].year,
                             product  |-> of(names[k])[1].product,
                             value    |-> SumColumn(of(names[k]), "value"),
                             quantity |-> SumColumn(of(names[k]), "quantity")]])]

\* The codes df gives a name: df[[name, code]].drop_duplicates() read for one
\* name, in the order of their first rows.
CodesOf(df, name, code, x) ==
    LET hits  == SelectSeq(df.rows, LAMBDA r : r[name] = x)
        first(i) == \A j \in 1..(i - 1) : hits[j][code] # hits[i][code]
        keep  == SelectSeq(List([i \in 1..Len(hits) |-> i]), first)
    IN  List([k \in 1..Len(keep) |-> hits[keep[k]][code]])

RECURSIVE MergeRows(_, _, _, _)
\* The rows of frame.merge(codes, on=name, how="left"): each row once per
\* code of its name, with NaN for a name without a code.
MergeRows(rows, df, name, code) ==
    IF rows = <<>> THEN <<>>
    ELSE LET r  == Head(rows)
             cs == CodesOf(df, name, code, r[name])
             put(v) == [c \in DOMAIN r \cup {code} |-> IF c = code THEN v ELSE r[c]]
         IN  (IF cs = <<>> THEN <<put(NA)>>
              ELSE List([k \in 1..Len(cs) |-> put(cs[k])]))
             \o MergeRows(Tail(rows), df, name, code)

Merge(frame, df, name, code) ==
    [columns |-> frame.columns \cup {code},
     rows    |-> MergeRows(frame.rows, df, name, code)]

\* One side of select_n_largest_partners: the rows whose partner on that
\* side is not in top are summed per partner of the other side into rows of
\* "ROW". selected is the selection of the eight columns made before the
\* merge (lines 59-70, exporter side only); on the importer side there is
\* none and selected is the aggregate itself.
AggregateSide(df_copy, df, top, side, other, selected) ==
    LET side_name  == IF side = "exporter" THEN "exporter_name" ELSE "importer_name"
        other_name == IF other = "exporter" THEN "exporter_name" ELSE "importer_name"
        non_top    == SelectSeq(df_copy.rows, LAMBDA r : r[side_name] \notin top)
        aggregated == WithColumn(WithColumn(GroupAgg(non_top, other_name),
                                            side_name, "ROW"),
                                 side, RowCode)
        early      == IF selected THEN Columns(aggregated, AllColumns)
                      ELSE aggregated
        merged     == Columns(Merge(early, df, other_name, other), AllColumns)
        kept       == SelectSeq(df_copy.rows, LAMBDA r : r[side_name] \in top)
    IN  IF non_top = <<>> THEN df_copy
        ELSE IF early = KeyError \/ merged = KeyError THEN KeyError
        ELSE [columns |-> AllColumns, rows |-> kept \o merged.rows]

\* select_n_largest_partners(df, n) when head(n) yields top_exporters and
\* top_importers.
SelectWithTops(df, top_exporters, top_importers) ==
    LET after_exports ==
            AggregateSide(df, df, top_exporters, "exporter", "importer", TRUE)
    IN  IF after_exports = KeyError THEN KeyError
        ELSE AggregateSide(after_exports, df, top_importers,
                           "importer", "exporter", FALSE)

\* The frames given: the oak rows of a unit file with their names, a year
\* and a value of twice the quantity plus one.
PartnerFrame(f) ==
    LET rows == OakDf(f, FullLookup)
    IN  [columns |-> AllColumns,
         rows    |-> List([i \in 1..Len(rows) |->
                         [year          |-> Year,
                          exporter      |-> rows[i].exporter,
                          importer      |-> rows[i].importer,
                          product       |-> OakProduct,
                          value         |-> 2 * rows[i].quantity + 1,
                          quantity      |-> rows[i].quantity,
                          exporter_name |-> rows[i].exporter_name,
                          importer_name |-> rows[i].importer_name]])]

PartnerCalls ==
    {[df |-> PartnerFrame(f), n |-> n] : f \in UnitFiles, n \in 1..Len(Alphabet)}

InitPartners ==
    /\ csv = <<>>
    /\ codes = FullLookup
    /\ oak_df = None
    /\ country_ranks = None
    /\ ranked_oak_df = None
    /\ countries_ordered = None
    /\ full_matrix = None
    /\ out = None
    /\ prev = None
    /\ sess = None
    /\ bokeh = None
    /\ resp = None
    /\ rebuilt = None
    /\ arg \in {Some(c) : c \in PartnerCalls}
    /\ ret = None

\* select_n_largest_partners(df, n) is called and returns or raises.
CallSelectNLargestPartners ==
    /\ ret = None
    /\ \E top_exporters \in
              TopSets(GroupBySum(Val(arg).df.rows, "exporter_name"), Val(arg).n),
          top_importers \in
              TopSets(GroupBySum(Val(arg).df.rows, "importer_name"), Val(arg).n) :
           ret' = Some(SelectWithTops(Val(arg).df, top_exporters, top_importers))
    /\ UNCHANGED <<csv, codes, oak_df, country_ranks, ranked_oak_df,
                   countries_ordered, full_matrix, out, prev,
                   sess, bokeh, resp, rebuilt, arg>>

NextPartners == CallSelectNLargestPartners

SpecPartners == InitPartners /\ [][NextPartners]_vars

\* C18: for every input and every n >= 1 select_n_largest_partners returns a
\* frame whose total quantity and total value are those of the input, also
\* when the input has more than n distinct exporters.
C18_PartnersKeepTotals ==
    ret # None =>
        /\ Val(ret) # KeyError
        /\ SumColumn(Val(ret).rows, "quantity")
               = SumColumn(Val(arg).df.rows, "quantity")
        /\ SumColumn(Val(ret).rows, "value")
               = SumColumn(Val(arg).df.rows, "value")

-----------------------------------------------------------------------------
(* data/fast_api.py: GET /data. The response is the content handed to      *)
(* JSONResponse.                                                           *)

\* filtered_df[["exporter_name", "importer_name", "quantity"]]
\*     .to_dict(orient="records").
ToRecords(df) ==
    List([i \in 1..Len(df) |->
        [exporter_name |-> df[i].exporter_name,
         importer_name |-> df[i].importer_name,
         quantity      |-> df[i].quantity]])

\* The query parameter: omitted (None) or an integer.
TopNParams == {None} \cup {Some(n) : n \in 0..(Len(Alphabet) + 1)}

\* What data(top_n) hands to JSONResponse.
Data(df, top_n) ==
    ToRecords(IF top_n # None THEN RankMask(df, Val(top_n)) ELSE df)

InitApi ==
    /\ csv \in Files
    /\ codes \in Lookups
    /\ oak_df = None
    /\ country_ranks = None
    /\ ranked_oak_df = None
    /\ countries_ordered = None
    /\ full_matrix = None
    /\ out = None
    /\ prev = None
    /\ sess = None
    /\ bokeh = None
    /\ resp = None
    /\ rebuilt = None
    /\ arg = None
    /\ ret = None

\* GET /data?top_n=...: the module was imported (df = baci.ranked_oak_df) and
\* the handler answers from that frame.
GetData(top_n) ==
    /\ ranked_oak_df # None
    /\ resp' = Some([top_n |-> top_n, content |-> Data(Val(ranked_oak_df), top_n)])
    /\ UNCHANGED <<csv, codes, oak_df, country_ranks, ranked_oak_df,
                   countries_ordered, full_matrix, out, prev,
                   sess, bokeh, rebuilt, arg, ret>>

NextApi ==
    \/ GetOakDf
    \/ GetCountryRanks
    \/ GetRankedOakDf
    \/ \E top_n \in TopNParams : GetData(top_n)

SpecApi == InitApi /\ [][NextApi]_vars

\* The first n countries of the ranking.
FirstCountries(n) == Range(SubSeq(IndexToList(Ranks), 1, Min(n, Len(Ranks))))

\* C16: with top_n given GET /data returns exactly the records with
\* exporter_rank <= top_n and importer_rank <= top_n, which are exactly the
\* records whose exporter and importer are both among the first top_n
\* countries of the ranking; with top_n omitted it returns every record.
C16_DataIsTopNRecords ==
    resp # None =>
        LET df    == Val(ranked_oak_df)
            top_n == Val(resp).top_n
        IN  IF top_n = None THEN Val(resp).content = ToRecords(df)
            ELSE /\ Val(resp).content =
                        ToRecords(SelectSeq(df, LAMBDA r :
                            /\ r.exporter_rank # NA
                            /\ r.importer_rank # NA
                            /\ r.exporter_rank <= Val(top_n)
                            /\ r.importer_rank <= Val(top_n)))
                 /\ Val(resp).content =
                        ToRecords(SelectSeq(df, LAMBDA r :
                            /\ r.exporter_name \in FirstCountries(Val(top_n))
                            /\ r.importer_name \in FirstCountries(Val(top_n))))

\* C16 witness: of three ranked countries the request for the top 2 returned
\* some records and left out others.
C16_Witness ==
    /\ resp # None
    /\ Val(resp).top_n = Some(2)
    /\ K = 3
    /\ Val(resp).content # <<>>
    /\ Len(Val(resp).content) < Len(Val(ranked_oak_df))

-----------------------------------------------------------------------------
(* voila_heatmap.py: the variant that rebuilds the matrix on every slider  *)
(* change. Its df and countries_ordered are memoised copies of values of   *)
(* baci that never change, so they are read from baci here.                *)

\* country_ranks.sort_values(ascending=False).index.tolist().
RebuildOrderDescending(ranks) == Reversed(IndexToList(SortValues(ranks)))

\* countries_ordered of voila_heatmap:
\* country_ranks.sort_values(ascending=True).index.tolist().
RebuildOrder(ranks) == IndexToList(SortValues(ranks))

\* df[df["exporter_name"].isin(countries) & df["importer_name"].isin(countries)].
IsinBoth(df, countries) ==
    SelectSeq(df, LAMBDA r : r.exporter_name \in Range(countries)
                             /\ r.importer_name \in Range(countries))

\* What _matrix_for_n returns: x, y and z = mat.to_numpy().tolist().
MatrixForNResult(df, ordered, n) ==
    LET countries == PySlice(ordered, n)
        sub       == IsinBoth(df, countries)
        mat       == Reindex(PivotTable(sub, 0), countries, countries, 0)
    IN  [n |-> n, x |-> countries, y |-> countries, z |-> mat.values]

InitRebuild ==
    /\ csv \in UnitFiles
    /\ codes \in Lookups
    /\ oak_df = None
    /\ country_ranks = None
    /\ ranked_oak_df = None
    /\ countries_ordered = None
    /\ full_matrix = None
    /\ out = None
    /\ prev = None
    /\ sess = None
    /\ bokeh = None
    /\ resp = None
    /\ rebuilt = None
    /\ arg = None
    /\ ret = None

\* voila_heatmap._matrix_for_n(n).
MatrixForN(n) ==
    /\ oak_df' = ReadOakDf
    /\ country_ranks' = ReadCountryRanks
    /\ ranked_oak_df' = ReadRankedOakDf
    /\ rebuilt' = Some(MatrixForNResult(Val(ReadRankedOakDf),
                                        RebuildOrder(Val(ReadCountryRanks)), n))
    /\ UNCHANGED <<csv, codes, countries_ordered, full_matrix, out, prev,
                   sess, bokeh, resp, arg, ret>>

NextRebuild ==
    \/ GetOakDf
    \/ GetCountryRanks
    \/ GetRankedOakDf
    \/ GetCountriesOrdered
    \/ GetFullMatrix
    \/ \E n \in TopNs : SliceForN(n)
    \/ \E n \in TopNs : MatrixForN(n)

SpecRebuild == InitRebuild /\ [][NextRebuild]_vars

\* C19: for every top_n in [2, K] the slice of the precomputed full matrix
\* (_slice_for_n) and the matrix rebuilt from the records filtered to the
\* top_n countries (_matrix_for_n) have the same labels and the same cells.
C19_SliceEqualsRebuild ==
    /\ (rebuilt # None /\ InRange(Val(rebuilt).n)) =>
           Val(rebuilt) = FreshSlice(Val(rebuilt).n)
    /\ (rebuilt # None /\ out # None /\ InRange(Slice.n)
            /\ Val(rebuilt).n = Slice.n) =>
           Val(rebuilt) = Slice

\* C19 witness: both variants answered the same top_n below K, one of the
\* top_n countries imports nothing from the others, so that the rebuilt pivot
\* lacks its row, and there is trade among the top_n.
C19_Witness ==
    /\ rebuilt # None
    /\ out # None
    /\ Val(rebuilt).n = Slice.n
    /\ InRange(Slice.n)
    /\ Slice.n < K
    /\ \E c \in Range(Slice.y) :
           IsinBoth(SelectSeq(Val(ranked_oak_df),
                              LAMBDA r : r.importer_name = c), Slice.x) = <<>>
    /\ \E i, j \in 1..Slice.n : Slice.z[i][j] > 0

-----------------------------------------------------------------------------
(* plotly_static.py and holoviews_static.py: the pages that hold one       *)
(* precomputed matrix per slider value. Both take the names of each side   *)
(* from the rows of ranked_oak_df, an axis per side.                       *)

\* int(max(df["exporter_rank"].max(), df["importer_rank"].max())), for a
\* frame with rows.
StaticMaxN(df) ==
    LET ranks == {df[i].exporter_rank : i \in 1..Len(df)}
                     \cup {df[i].importer_rank : i \in 1..Len(df)}
    IN  CHOOSE r \in ranks : \A q \in ranks : q <= r

\* importers of _ordered_lists / self.importers.
OrderedImporters(df) == NamesByRank(df, "importer_name", "importer_rank")

\* exporters of _ordered_lists / self.exporters.
OrderedExporters(df) == NamesByRank(df, "exporter_name", "exporter_rank")

\* df[df["exporter_name"].isin(x) & df["importer_name"].isin(y)].
IsinSides(df, x, y) ==
    SelectSeq(df, LAMBDA r : r.exporter_name \in Range(x)
                             /\ r.importer_name \in Range(y))

\* mat.stack().rename("quantity").reset_index(): one row per cell.
Stack(mat) ==
    List([k \in 1..(Len(mat.index) * Len(mat.columns)) |->
        [importer_name |-> mat.index[((k - 1) \div Len(mat.columns)) + 1],
         exporter_name |-> mat.columns[((k - 1) % Len(mat.columns)) + 1],
         quantity      |->
             mat.values[((k - 1) \div Len(mat.columns)) + 1]
                       [((k - 1) % Len(mat.columns)) + 1]]])

\* What _matrix_for_n returns (x, y, mat), with the long frame that
\* _heatmap_for_n hands to hv.HeatMap.
StaticMatrixForN(df, exporters, importers, n) ==
    LET x   == PySlice(exporters, n)
        y   == PySlice(importers, n)
        sub == IsinSides(df, x, y)
        mat == Reindex(PivotTable(sub, 0), y, x, 0)
    IN  [n |-> n, x |-> x, y |-> y, z |-> mat.values, long |-> Stack(mat)]

InitStatic ==
    /\ csv \in UnitFiles
    /\ codes = FullLookup
    /\ oak_df = None
    /\ country_ranks = None
    /\ ranked_oak_df = None
    /\ countries_ordered = None
    /\ full_matrix = None
    /\ out = None
    /\ prev = None
    /\ sess = None
    /\ bokeh = None
    /\ resp = None
    /\ rebuilt = None
    /\ arg = None
    /\ ret = None

\* PlotlyHeatmapOffline.fig computes the frame of one n of
\* range(min_n, max_n + 1).
PlotlyFrame(n) ==
    /\ Len(Val(ReadRankedOakDf)) > 0
    /\ 2 <= n
    /\ n <= StaticMaxN(Val(ReadRankedOakDf))
    /\ oak_df' = ReadOakDf
    /\ country_ranks' = ReadCountryRanks
    /\ ranked_oak_df' = ReadRankedOakDf
    /\ arg' = Some([front |-> "plotly_static",
                    max_n |-> StaticMaxN(Val(ReadRankedOakDf))])
    /\ ret' = Some(StaticMatrixForN(Val(ReadRankedOakDf),
                                    OrderedExporters(Val(ReadRankedOakDf)),
                                    OrderedImporters(Val(ReadRankedOakDf)), n))
    /\ UNCHANGED <<csv, codes, countries_ordered, full_matrix, out, prev,
                   sess, bokeh, resp, rebuilt>>

\* HoloViewsHeatmapStatic: the slider, embedded with the states
\* range(2, max_n + 1), calls _heatmap_for_n(n).
HoloViewsState(n) ==
    /\ Len(Val(ReadRankedOakDf)) > 0
    /\ 2 <= n
    /\ n <= StaticMaxN(Val(ReadRankedOakDf))
    /\ oak_df' = ReadOakDf
    /\ country_ranks' = ReadCountryRanks
    /\ ranked_oak_df' = ReadRankedOakDf
    /\ arg' = Some([front |-> "holoviews_static",
                    max_n |-> StaticMaxN(Val(ReadRankedOakDf))])
    /\ ret' = Some(StaticMatrixForN(Val(ReadRankedOakDf),
                                    OrderedExporters(Val(ReadRankedOakDf)),
                                    OrderedImporters(Val(ReadRankedOakDf)), n))
    /\ UNCHANGED <<csv, codes, countries_ordered, full_matrix, out, prev,
                   sess, bokeh, resp, rebuilt>>

NextStatic ==
    \/ GetOakDf
    \/ GetCountryRanks
    \/ GetRankedOakDf
    \/ \E n \in TopNs : PlotlyFrame(n)
    \/ \E n \in TopNs : HoloViewsState(n)

SpecStatic == InitStatic /\ [][NextStatic]_vars

\* C21: in the static Plotly and HoloViews pages, for every n in [2, max_n]
\* the matrix built for n is n x n, and its row labels and its column labels
\* are the same set, the n countries of rank 1..n, also when a highly ranked
\* country never exports or never imports.
C21_StaticMatrixIsTopN ==
    ret # None =>
        LET m == Val(ret)
        IN  /\ Len(m.x) = m.n
            /\ Len(m.y) = m.n
            /\ Len(m.z) = m.n
            /\ \A i \in 1..Len(m.z) : Len(m.z[i]) = m.n
            /\ Len(m.long) = m.n * m.n
            /\ Range(m.x) = Range(m.y)
            /\ Range(m.x) = Range(PySlice(IndexToList(Val(country_ranks)), m.n))

-----------------------------------------------------------------------------
(* bokeh_dynamic.py and shiny_heatmap.py (plotly_heatmap.py orders the     *)
(* countries with the same lines): the older variants, which order the     *)
(* countries by sorting the totals themselves and pivot the filtered pairs *)
(* on every slider change.                                                 *)
(* Series.sort_values is called with its default kind, quicksort, which    *)
(* pandas documents as not stable: the order of equal values is whatever   *)
(* the sort of the build leaves, and is drawn here from every order.       *)

\* The orders s.sort_values(ascending=False) can leave: every arrangement of
\* s with no value before a greater one.
SortValuesDescending(s) ==
    {List([p \in 1..Len(s) |-> s[f[p]]]) :
        f \in {g \in [1..Len(s) -> 1..Len(s)] :
                  /\ \A p, q \in 1..Len(s) : p # q => g[p] # g[q]
                  /\ \A p \in 1..(Len(s) - 1) : s[g[p]].val >= s[g[p + 1]].val}}

\* a.add(b, fill_value=0) for indexes in any order: two equal indexes are
\* kept as they are, otherwise the result has the sorted union of both.
SeriesAddAligned(a, b) ==
    IF IndexToList(a) = IndexToList(b)
    THEN List([i \in 1..Len(a) |-> [key |-> a[i].key, val |-> a[i].val + b[i].val]])
    ELSE SeriesAdd(a, b)

\* The lists sorted_countries can be.
SortedCountries(df) ==
    UNION {UNION {{IndexToList(country_totals) :
                      country_totals \in
                          SortValuesDescending(
                              SeriesAddAligned(exporter_totals, importer_totals))} :
                  importer_totals \in
                      SortValuesDescending(GroupBySum(df, "importer_name"))} :
           exporter_totals \in
               SortValuesDescending(GroupBySum(df, "exporter_name"))}

\* pivot_df: df.groupby(["exporter_name", "importer_name"])["quantity"]
\* .sum().reset_index(), one row per pair that occurs, sorted by the pair.
GroupByPairs(df) ==
    LET ok    == SelectSeq(df, LAMBDA r : r.exporter_name # NaN
                                          /\ r.importer_name # NaN)
        exps  == SortedKeys({ok[i].exporter_name : i \in 1..Len(ok)})
        imps  == SortedKeys({ok[i].importer_name : i \in 1..Len(ok)})
        cells == List([k \in 1..(Len(exps) * Len(imps)) |->
                    [exporter_name |-> exps[((k - 1) \div Len(imps)) + 1],
                     importer_name |-> imps[((k - 1) % Len(imps)) + 1]]])
        there == SelectSeq(cells,
                     LAMBDA c : PairRows(ok, c.importer_name, c.exporter_name)
                                    # <<>>)
    IN  List([k \in 1..Len(there) |->
            [exporter_name |-> there[k].exporter_name,
             importer_name |-> there[k].importer_name,
             quantity      |->
                 SumQuantity(PairRows(ok, there[k].importer_name,
                                      there[k].exporter_name))]])

\* filtered_df.pivot_table(index="importer_name", columns="exporter_name",
\* values="quantity", fill_value=fill) with the default aggfunc, the mean:
\* pivot_df holds one row per pair, whose mean is its quantity.
PivotTableMean(rows, fill) ==
    LET index   == SortedKeys({rows[i].importer_name : i \in 1..Len(rows)})
        columns == SortedKeys({rows[i].exporter_name : i \in 1..Len(rows)})
    IN  [index   |-> index,
         columns |-> columns,
         values  |-> List([i \in 1..Len(index) |-> List([j \in 1..Len(columns) |->
                        IF PairRows(rows, index[i], columns[j]) = <<>> THEN fill
                        ELSE SumQuantity(PairRows(rows, index[i], columns[j]))
                                 \div Len(PairRows(rows, index[i], columns[j]))])])]

\* heatmap_matrix of create_heatmap_data and create_heatmap_figure: the
\* pivot of the pairs among the top_n countries, its labels put in the order
\* of sorted_countries.
HeatmapMatrix(pivot_df, sorted_countries, top_n) ==
    LET top_countries == PySlice(sorted_countries, top_n)
        filtered_df   == IsinBoth(pivot_df, top_countries)
        pivot         == PivotTableMean(filtered_df, 0)
    IN  Reindex(pivot,
                SelectSeq(sorted_countries, LAMBDA c : c \in Range(pivot.index)),
                SelectSeq(sorted_countries, LAMBDA c : c \in Range(pivot.columns)),
                NA)

\* The dict create_heatmap_data returns.
HeatmapData(pivot_df, sorted_countries, top_n) ==
    LET heatmap_matrix == HeatmapMatrix(pivot_df, sorted_countries, top_n)
        exporter_names == heatmap_matrix.columns
        importer_names == heatmap_matrix.index
        cells          == Len(importer_names) * Len(exporter_names)
        i(k)           == ((k - 1) \div Len(exporter_names)) + 1
        j(k)           == ((k - 1) % Len(exporter_names)) + 1
    IN  [top_n          |-> top_n,
         x              |-> List([k \in 1..cells |-> j(k) - 1]),
         y              |-> List([k \in 1..cells |-> i(k) - 1]),
         quantity       |-> List([k \in 1..cells |->
                                heatmap_matrix.values[i(k)][j(k)]]),
         exporter       |-> List([k \in 1..cells |-> exporter_names[j(k)]]),
         importer       |-> List([k \in 1..cells |-> importer_names[i(k)]]),
         exporter_names |-> exporter_names,
         importer_names |-> importer_names]

\* The z, x and y of the go.Heatmap of create_heatmap_figure.
HeatmapFigure(pivot_df, sorted_countries, top_n) ==
    LET heatmap_matrix == HeatmapMatrix(pivot_df, sorted_countries, top_n)
    IN  [top_n |-> top_n,
         z     |-> heatmap_matrix.values,
         x     |-> heatmap_matrix.columns,
         y     |-> heatmap_matrix.index]

InitOlder ==
    /\ csv \in UnitFiles
    /\ codes = FullLookup
    /\ oak_df = None
    /\ country_ranks = None
    /\ ranked_oak_df = None
    /\ countries_ordered = None
    /\ full_matrix = None
    /\ out = None
    /\ prev = None
    /\ sess = None
    /\ bokeh = None
    /\ resp = None
    /\ rebuilt = None
    /\ arg = None
    /\ ret = None

\* data_prep is read for the first time: sorted_countries is kept in
\* countries_ordered, pivot_df and max_n in arg.
DataPrep ==
    /\ countries_ordered = None
    /\ Len(Val(ReadRankedOakDf)) > 0
    /\ oak_df' = ReadOakDf
    /\ country_ranks' = ReadCountryRanks
    /\ ranked_oak_df' = ReadRankedOakDf
    /\ countries_ordered' \in
           {Some(sorted_countries) :
               sorted_countries \in SortedCountries(Val(ReadRankedOakDf))}
    /\ arg' = Some([pivot_df |-> GroupByPairs(Val(ReadRankedOakDf)),
                    max_n    |-> StaticMaxN(Val(ReadRankedOakDf))])
    /\ UNCHANGED <<csv, codes, full_matrix, out, prev,
                   sess, bokeh, resp, rebuilt, ret>>

\* BokehServerHeatmap.create_heatmap_data(top_n), called by setup_document
\* and by the slider's callback, the slider running from 2 to max_n.
CreateHeatmapData(top_n) ==
    /\ countries_ordered # None
    /\ arg # None
    /\ 2 <= top_n
    /\ top_n <= Val(arg).max_n
    /\ ret' = Some(HeatmapData(Val(arg).pivot_df, Val(countries_ordered), top_n))
    /\ UNCHANGED <<csv, codes, oak_df, country_ranks, ranked_oak_df,
                   countries_ordered, full_matrix, out, prev,
                   sess, bokeh, resp, rebuilt, arg>>

\* ShinyHeatmap.create_heatmap_figure(top_n), called when input.top_n
\* changes.
CreateHeatmapFigure(top_n) ==
    /\ countries_ordered # None
    /\ arg # None
    /\ 2 <= top_n
    /\ top_n <= Val(arg).max_n
    /\ rebuilt' = Some(HeatmapFigure(Val(arg).pivot_df,
                                     Val(countries_ordered), top_n))
    /\ UNCHANGED <<csv, codes, oak_df, country_ranks, ranked_oak_df,
                   countries_ordered, full_matrix, out, prev,
                   sess, bokeh, resp, arg, ret>>

NextOlder ==
    \/ GetOakDf
    \/ GetCountryRanks
    \/ GetRankedOakDf
    \/ DataPrep
    \/ \E top_n \in TopNs : CreateHeatmapData(top_n)
    \/ \E top_n \in TopNs : CreateHeatmapFigure(top_n)

SpecOlder == InitOlder /\ [][NextOlder]_vars

\* C22: in the Bokeh server variant create_heatmap_data(top_n) returns, for
\* every top_n in [2, max_n], exactly top_n exporter names and top_n importer
\* names in rank order and exactly top_n * top_n cells (x, y and quantity
\* each have top_n * top_n entries), a pair without records having quantity
\* 0, also when a top-ranked country has no trade with the other top_n
\* countries.
C22_HeatmapDataIsDense ==
    ret # None =>
        LET d   == Val(ret)
            top == PySlice(Val(countries_ordered), d.top_n)
        IN  /\ d.exporter_names = top
            /\ d.importer_names = top
            /\ Len(d.exporter_names) = d.top_n
            /\ Len(d.importer_names) = d.top_n
            /\ Len(d.x) = d.top_n * d.top_n
            /\ Len(d.y) = d.top_n * d.top_n
            /\ Len(d.quantity) = d.top_n * d.top_n
            /\ \A k \in 1..Len(d.quantity) :
                   d.quantity[k] =
                       SumQuantity(PairRows(Val(ranked_oak_df),
                                            d.importer[k], d.exporter[k]))

-----------------------------------------------------------------------------
(* with_wasm/app.py: the page that computes order and matrix in the        *)
(* browser from baci_dataset.json, the records BaciDataset.json exports.   *)
(* The result of _countries_and_matrix (an lru_cache of one entry) is kept *)
(* in countries_ordered and full_matrix, the slider in arg, and what the   *)
(* last _update published, or the exception it raised, in ret.             *)

\* null of JSON, None of Python, in a name field; in a numeric field NA
\* stands for it, as it stands for the NaN that to_json writes as null.
Null == "null"

IndexError == [error |-> "IndexError"]

\* ranked_oak_df.to_json(orient="records") read back with json.load: a list
\* of dicts, a NaN written as null.
JsonRecords(df) ==
    List([k \in 1..Len(df) |->
        [exporter_name |-> IF df[k].exporter_name = NaN THEN Null
                           ELSE df[k].exporter_name,
         importer_name |-> IF df[k].importer_name = NaN THEN Null
                           ELSE df[k].importer_name,
         quantity      |-> df[k].quantity,
         exporter_rank |-> df[k].exporter_rank,
         importer_rank |-> df[k].importer_rank]])

\* float(r.get("quantity") or 0.0).
QuantityOrZero(q) == IF q = NA THEN 0 ELSE q

\* totals[k] = totals.get(k, 0.0) + q when k is truthy: a dict, its keys in
\* the order they were first set.
AddTotal(totals, k, q) ==
    IF k = Null THEN totals
    ELSE IF k \in Keys(totals)
         THEN List([p \in 1..Len(totals) |->
                  IF totals[p].key = k
                  THEN [key |-> k, val |-> totals[p].val + q]
                  ELSE totals[p]])
         ELSE Append(totals, [key |-> k, val |-> q])

RECURSIVE WasmTotals(_, _)
\* The loop over the records that fills totals.
WasmTotals(records, totals) ==
    IF records = <<>> THEN totals
    ELSE WasmTotals(Tail(records),
             AddTotal(AddTotal(totals, Head(records).exporter_name,
                               QuantityOrZero(Head(records).quantity)),
                      Head(records).importer_name,
                      QuantityOrZero(Head(records).quantity)))

\* sorted(totals.items(), key=lambda kv: kv[1], reverse=True): stable, equal
\* totals stay in the order of the dict.
SortedReverse(totals) ==
    LET pos(i) == 1 + Cardinality({j \in 1..Len(totals) :
                                      totals[j].val > totals[i].val})
                    + Cardinality({j \in 1..(i - 1) :
                                      totals[j].val = totals[i].val})
    IN  List([p \in 1..Len(totals) |->
            totals[CHOOSE i \in 1..Len(totals) : pos(i) = p]])

\* What _countries_and_matrix returns: countries and mat, rows the importers
\* and columns the exporters.
CountriesAndMatrix(records) ==
    LET countries == IndexToList(SortedReverse(WasmTotals(records, <<>>)))
        n         == Len(countries)
    IN  [countries |-> countries,
         mat       |-> List([i \in 1..n |-> List([e \in 1..n |->
                           SumQuantity(SelectSeq(records,
                               LAMBDA r : r.importer_name = countries[i]
                                          /\ r.exporter_name = countries[e]))])])]

\* What _update publishes for the slider value n: range(n) indexes mat and
\* names, which hold len(countries) entries.
Update(countries, mat, n) ==
    IF n > Len(countries) THEN IndexError
    ELSE LET names == PySlice(countries, n)
         IN  [n         |-> n,
              x         |-> List([k \in 1..(n * n) |-> names[((k - 1) % n) + 1]]),
              y         |-> List([k \in 1..(n * n) |-> names[((k - 1) \div n) + 1]]),
              q         |-> List([k \in 1..(n * n) |->
                                mat[((k - 1) \div n) + 1][((k - 1) % n) + 1]]),
              x_factors |-> names,
              y_factors |-> Reversed(names)]

InitWasm ==
    /\ csv \in UnitFiles
    /\ codes \in Lookups
    /\ oak_df = None
    /\ country_ranks = None
    /\ ranked_oak_df = None
    /\ countries_ordered = None
    /\ full_matrix = None
    /\ out = None
    /\ prev = None
    /\ sess = None
    /\ bokeh = None
    /\ resp = None
    /\ rebuilt = None
    /\ arg = None
    /\ ret = None

\* The page is opened on the exported records: PanelWasmHeatmap.__init__
\* computes countries and mat, sets up the slider and calls _update.
WasmOpen ==
    LET cm    == CountriesAndMatrix(JsonRecords(Val(ReadRankedOakDf)))
        max_n == Max(2, Len(cm.countries))
    IN  /\ arg = None
        /\ oak_df' = ReadOakDf
        /\ country_ranks' = ReadCountryRanks
        /\ ranked_oak_df' = ReadRankedOakDf
        /\ countries_ordered' = Some(cm.countries)
        /\ full_matrix' = Some([index   |-> cm.countries,
                                columns |-> cm.countries,
                                values  |-> cm.mat])
        /\ arg' = Some([start |-> 2, end |-> max_n,
                        value |-> Min(DefaultN, max_n)])
        /\ ret' = Some(Update(cm.countries, cm.mat, Min(DefaultN, max_n)))
        /\ UNCHANGED <<csv, codes, out, prev, sess, bokeh, resp, rebuilt>>

\* The reader moves the slider of the page that was built to n: the watcher
\* calls _update.
WasmSlide(n) ==
    /\ arg # None
    /\ Val(ret) # IndexError
    /\ Val(arg).start <= n
    /\ n <= Val(arg).end
    /\ n # Val(arg).value
    /\ arg' = Some([Val(arg) EXCEPT !.value = n])
    /\ ret' = Some(Update(Val(countries_ordered), Val(full_matrix).values, n))
    /\ UNCHANGED <<csv, codes, oak_df, country_ranks, ranked_oak_df,
                   countries_ordered, full_matrix, out, prev,
                   sess, bokeh, resp, rebuilt>>

NextWasm ==
    \/ GetOakDf
    \/ GetCountryRanks
    \/ GetRankedOakDf
    \/ WasmOpen
    \/ \E n \in TopNs : WasmSlide(n)

SpecWasm == InitWasm /\ [][NextWasm]_vars

\* C24: the in-browser variant computes what the pandas kernel computes: on
\* the records exported by BaciDataset.json, _countries_and_matrix returns
\* the countries in the order of country_ranks and a full matrix equal cell
\* for cell to the zero-filled pivot full_matrix, also for records with a
\* missing name.
C24_WasmEqualsKernel ==
    (arg # None /\ countries_ordered # None) =>
        LET countries == IndexToList(Val(country_ranks))
        IN  /\ Val(countries_ordered) = countries
            /\ Val(full_matrix) = FullMatrix(countries, Val(ranked_oak_df))

\* C25: in the in-browser variant, for every record set and every slider
\* value n of the slider's range [2, max_n], _update completes without an
\* index error and publishes exactly n * n cells and n labels per axis, also
\* when the data holds fewer than two countries.
C25_UpdatePublishesNByN ==
    (arg # None /\ ret # None) =>
        /\ Val(ret) # IndexError
        /\ Val(ret).n = Val(arg).value
        /\ Len(Val(ret).x) = Val(ret).n * Val(ret).n
        /\ Len(Val(ret).y) = Val(ret).n * Val(ret).n
        /\ Len(Val(ret).q) = Val(ret).n * Val(ret).n
        /\ Len(Val(ret).x_factors) = Val(ret).n
        /\ Len(Val(ret).y_factors) = Val(ret).n

-----------------------------------------------------------------------------
(* solara_dynamic.py: the Page component, which clamps the reactive top_n  *)
(* before it renders. The reactive's value is kept in arg, what the last   *)
(* render passed to figure_for_n, with the figure, in ret.                 *)

\* The values the reactive top_n is given between renders: from below the
\* slider's minimum to above the default.
ReactiveValues == (0 - 1)..(DefaultN + 1)

\* A clamp that tests the upper end only.
ClampTopNUpperOnly(value, max_n) ==
    IF value > max_n THEN Min(DefaultN, max_n) ELSE value

\* if top_n.value < 2 or top_n.value > max_n: top_n.set(min(10, max_n)).
ClampTopN(value, max_n) ==
    IF value < 2 \/ value > max_n THEN Min(DefaultN, max_n) ELSE value

InitSolara ==
    /\ csv \in UnitFiles
    /\ codes \in Lookups
    /\ oak_df = None
    /\ country_ranks = None
    /\ ranked_oak_df = None
    /\ countries_ordered = None
    /\ full_matrix = None
    /\ out = None
    /\ prev = None
    /\ sess = None
    /\ bokeh = None
    /\ resp = None
    /\ rebuilt = None
    /\ arg = Some(DefaultN)
    /\ ret = None

\* top_n is set from outside a render: the slider, or any code that holds
\* the reactive.
SetTopN(value) ==
    /\ value # Val(arg)
    /\ arg' = Some(value)
    /\ UNCHANGED <<csv, codes, oak_df, country_ranks, ranked_oak_df,
                   countries_ordered, full_matrix, out, prev,
                   sess, bokeh, resp, rebuilt, ret>>

\* Page() renders: max_n is read, top_n is clamped and figure_for_n is
\* called with it.
Page ==
    LET max_n == Len(Val(ReadCountriesOrdered))
        n     == ClampTopN(Val(arg), max_n)
    IN  /\ oak_df' = ReadOakDf
        /\ country_ranks' = ReadCountryRanks
        /\ ranked_oak_df' = ReadRankedOakDf
        /\ countries_ordered' = ReadCountriesOrdered
        /\ full_matrix' = ReadFullMatrix
        /\ arg' = Some(n)
        /\ ret' = Some([before |-> Val(arg),
                        max_n  |-> max_n,
                        n      |-> n,
                        fig    |-> SliceResult(Val(ReadCountriesOrdered),
                                               Val(ReadFullMatrix), n)])
        /\ UNCHANGED <<csv, codes, out, prev, sess, bokeh, resp, rebuilt>>

NextSolara ==
    \/ GetOakDf
    \/ GetCountryRanks
    \/ GetRankedOakDf
    \/ \E value \in ReactiveValues : SetTopN(value)
    \/ Page

SpecSolara == InitSolara /\ [][NextSolara]_vars

\* C26 as stated: whatever top_n held before the render, the value passed
\* to figure_for_n satisfies 2 <= top_n <= max_n, for every max_n, and a
\* value already inside [2, max_n] is left unchanged.
C26_ClampedIntoRange ==
    ret # None =>
        /\ 2 <= Val(ret).n
        /\ Val(ret).n <= Val(ret).max_n
        /\ (2 <= Val(ret).before /\ Val(ret).before <= Val(ret).max_n)
               => Val(ret).n = Val(ret).before

\* C26: whatever top_n held before the render, the value passed to
\* figure_for_n satisfies 2 <= top_n <= max_n when max_n is at least 2, and
\* is max_n itself when max_n is 0 or 1; a value already inside [2, max_n]
\* is left unchanged, and the figure has as many labels as the value passed.
C26_ClampedIntoRangeWhenTwoCountries ==
    ret # None =>
        /\ Val(ret).max_n = Cardinality(Countries(OakDf(csv, codes)))
        /\ Val(ret).max_n >= 2
               => (2 <= Val(ret).n /\ Val(ret).n <= Val(ret).max_n)
        /\ Val(ret).max_n < 2 => Val(ret).n = Val(ret).max_n
        /\ (2 <= Val(ret).before /\ Val(ret).before <= Val(ret).max_n)
               => Val(ret).n = Val(ret).before
        /\ Len(Val(ret).fig.x) = Val(ret).n

\* C26 witness: a render found top_n below 2 with three countries, set it to
\* 3 and drew the 3 x 3 figure.
C26_Witness ==
    /\ ret # None
    /\ Val(ret).before < 2
    /\ Val(ret).max_n = 3
    /\ Val(ret).n = 3
    /\ Len(Val(ret).fig.z) = 3
    /\ arg = Some(3)

====
